---- MODULE Spec2Model ----
(***************************************************************************)
(* A model of the web-style Worker facade of src/node-worker.js on top of  *)
(* node:worker_threads.  The file holds two implementations of the facade: *)
(*   "loader"  : lines 1-232, the handle wraps a native Worker started     *)
(*               with the module-loader hook and the pre-run script;       *)
(*   "channel" : lines 234-382, the handle talks to the native context     *)
(*               over a MessageChannel.                                    *)
(* One orchestrator handle and its native execution context are modelled.  *)
(***************************************************************************)
EXTENDS Integers, Sequences, FiniteSets, TLC

\* ---------------------------------------------------------------- bounds
MaxWire == 2      \* native 'message' handlers the loader handle may attach
MaxMsgs == 2      \* messages the orchestrator and the module post in all,
                  \* the module's echoes not counted
MaxLen  == 3      \* characters of a module's source text
MaxReads == 2     \* calls of the synchronous blob reader
MaxLoads == 2     \* load calls for blob: URLs in the asking context

\* ---------------------------------------------------------------- inputs
Impls  == {"loader", "channel"}
Kinds  == {"file", "data", "https", "blob"}
Types  == {"module", "classic", "absent"}
Fns    == {"f", "g"}
Null   == "null"
NonFn  == "junk"
SlotValues == Fns \cup {Null, NonFn}
EvTypes == {"message", "error"}
Vals   == {1, 2}
Errs   == {"ReferenceError", "SyntaxError"}

VARIABLES
  impl,        \* which implementation of the facade is under test
  focus,       \* the event type whose listeners and slot the client uses
  phase,       \* "idle" | "threw" | "ready": the constructor call
  ctorType,    \* options.type given to the constructor
  hasWorker,   \* this.#worker is set
  loadPending, \* channel: #loadModule is suspended at `await blob.text()`
  spawned,     \* number of native contexts created for the handle
  listeners,   \* [type -> sequence of callbacks] of the handle's EventTarget
  slot,        \* [type -> value] of the onmessage / onerror slot
  wired,       \* native 'message' handlers attached to the native context
  w2h,         \* messages in flight, native context -> handle
  h2w,         \* messages in flight, handle -> native context
  errq,        \* fatal failures signalled by the context, not yet emitted
  wphase,      \* "none" | "booting" | "running" | "dead" | "exited"
  wListening,  \* the user module has registered its message handler
  portStarted, \* the context's end of the channel delivers messages
  exited,      \* this._exited
  terminated,  \* the native terminate() has been requested
  last,        \* what the step that led to this state did (its outcome)
  hist,        \* observations kept for the properties
  \* -- the source text of a worker and what the context ends up evaluating
  text,        \* the module's source text, a sequence of characters
  booted,      \* [kind -> what a context built from that kind of URL runs]
  \* -- a worker constructed by the user module inside the context
  nested,      \* the nested handle, its context and the channel between them
  \* -- the module hooks of src/node-loader-v16.js and src/node-loader-v18.js
  resolved,    \* the last resolve call: its arguments, each variant's result
  loaded,      \* the last load call: its URL, each variant's classification
  \* -- the global scope installed in the context by the pre-run script
  scope,       \* listeners of parentPort and of the scope, the onmessage slot
  \* -- the synchronous blob reader of createBlobReader
  reader,      \* the requester, the responder context and their two queues
  \* -- the resolver of blob: URLs over the 'blob: loader' broadcast channel
  bcast,       \* the loading context, the responders and their inboxes
  \* -- the entry script a spawned context evaluates
  entry,       \* the modules evaluated so far, in order, and the failure
  \* -- process.stdout / process.stderr with the installed _writev
  stdio,       \* the chunks of one _writev call, those written, the callback
  \* -- the fallback fetch of the module hooks
  fetch        \* the request, the response stream and the returned promise

\* The handle and its native context
facade == <<impl, focus, phase, ctorType, hasWorker, loadPending, spawned,
            listeners, slot, wired, w2h, h2w, errq, wphase, wListening,
            portStarted, exited, terminated, last, hist>>

\* The other components, which the handle's operations leave alone
ext == <<text, booted, nested, resolved, loaded, scope, reader, bcast,
         entry, stdio, fetch>>

vars == <<facade, ext>>

Range(s) == {s[i] : i \in 1..Len(s)}

\* ------------------------------------------------------- EventTarget
\* addEventListener ignores a callback that is already registered for the type.
ETAdd(l, fn) == IF fn \in Range(l) THEN l ELSE Append(l, fn)

ETRemove(l, fn) == SelectSeq(l, LAMBDA x : x # fn)

\* kind: the step; events, calls: the events it dispatched at the handle and
\* the callbacks they invoked, in order; id, data: the message or value it
\* carried; threw: the call or handler threw a TypeError.
NoLast == [kind |-> "none", events |-> 0, calls |-> <<>>, id |-> 0,
           data |-> <<>>, threw |-> FALSE]

Outcome(kind, data, threw) ==
  [NoLast EXCEPT !.kind = kind, !.data = data, !.threw = threw]

NoHist == [sentW |-> <<>>,       \* data of every message the module posted
           sentH |-> <<>>,       \* data of every message the orchestrator posted
           seenH |-> <<>>,       \* ids of messages dispatched at the handle
           seenW |-> <<>>,       \* ids of messages the module's handler got
           lostH |-> {},         \* ids emitted at the handle with no handler
           lostW |-> {},         \* ids dispatched in the context to no handler
           early |-> {},         \* ids posted before the module registered
           replaced |-> {},      \* functions the slot held before
           userReg |-> {},       \* added by the client via addEventListener
           thrown |-> <<>>,      \* fatal failures the context signalled
           loadedBare |-> FALSE, \* the import completed with no handler yet
           echoSeen |-> {},      \* ids whose echo was dispatched at the handle
           errEvents |-> 0,      \* error events dispatched
           order |-> <<>>,       \* the client's registrations, oldest first
           mixed |-> FALSE,      \* one function was used as listener and handler
           unheard |-> {}]       \* ids that arrived and invoked no callback

\* What a context evaluates: a module text, or the failure of its entry script
Runs(t) == [error |-> "none", module |-> t]

Fails(e) == [error |-> e, module |-> <<>>]

NotBooted == Fails("not constructed")

SourcesIdle ==
  /\ text = <<>>
  /\ booted = [k \in {"blob", "data"} |-> NotBooted]

\* phase: the outer module has constructed the nested worker; loadPending,
\* spawned: as for the outer handle; slot: the nested handle's onmessage;
\* wired: native 'message' handlers of the nested handle; inbox: messages in
\* flight from the nested context; sent: values it posted; seen: ids of the
\* messages dispatched at the nested handle.
NoNested == [phase |-> "none", loadPending |-> FALSE, spawned |-> FALSE,
             slot |-> Null, wired |-> 0, inbox |-> <<>>, sent |-> <<>>,
             seen |-> <<>>]

NestedIdle == nested = NoNested

\* The two host-version variants of the module hooks
Variants == {"v16", "v18"}

\* The result of a resolve call: the hook's return value, or the arguments it
\* passed to nextResolve (whose result it then returns).
NoResolution == [shortCircuit |-> FALSE, url |-> <<>>, next |-> <<>>]

\* The outcome of load's classification: branch is "fetch", "broadcast" or
\* "next"; request is the URL fetched, the token asked for on the broadcast
\* channel, or the URL passed to nextLoad.
NoLoad == [branch |-> "none", shortCircuit |-> FALSE, format |-> "none",
           request |-> <<>>, next |-> <<>>]

HooksIdle ==
  /\ resolved = [called |-> FALSE, specifier |-> <<>>, parentURL |-> <<>>,
                 out |-> [v \in Variants |-> NoResolution]]
  /\ loaded = [called |-> FALSE, url |-> <<>>, fromResolve |-> FALSE,
               out |-> [v \in Variants |-> NoLoad]]

\* Event types a module uses on its scope
ScopeTypes == {"message", "custom"}

\* What a step of the scope did: the callbacks it invoked, in order, and
\* whether the call threw a TypeError.
NoScopeOut == [kind |-> "none", type |-> "none", calls |-> <<>>,
               threw |-> FALSE]

\* port: the 'message' listeners of parentPort; target: the listeners of the
\* scope's own EventTarget, by type; slot: the module-level `onmessage`;
\* userReg: callbacks the module added with addEventListener('message');
\* replaced: functions the slot held before.
ScopeIdle ==
  scope = [port |-> <<>>, target |-> [t \in ScopeTypes |-> <<>>],
           slot |-> Null, out |-> NoScopeOut, userReg |-> {},
           replaced |-> {}]

\* pc: where readBlobUrlSync is ("idle", "posted", "waiting", "woken");
\* token: the blob: URL it reads; cell: int32[0] of the shared buffer;
\* request: localPort -> workerPort; response: workerPort -> localPort;
\* rpc: where the responder is ("none", "booting", "idle", "reading",
\* "posted");
\* rtoken: the blob it reads; results: what the calls returned; threw: a
\* call ended with a TypeError; bound: what `createBlobReader` is bound to,
\* the "factory" of lines 9-39 or the arrow that returns the "reader"; made:
\* how often the factory's body ran, each run creating a shared cell, a port
\* pair and a reader context.
ReaderIdle ==
  reader = [pc |-> "idle", token |-> "none", cell |-> 0, request |-> <<>>,
            response |-> <<>>, rpc |-> "none", rtoken |-> "none",
            results |-> <<>>, threw |-> FALSE, bound |-> "factory",
            made |-> 0]

\* The BroadcastChannel instances: the one of the context whose load hook
\* asks, and those of the contexts that answer (the orchestrator's, created
\* by node-worker.js, and another context's loader).
Responders == {"main", "peer"}

Instances == {"asker"} \cup Responders

\* blob: URLs a load may be called for
Tokens == {"t1", "t2"}

\* variant: the hook file of the asking context; registry: the tokens each
\* responder's resolveObjectURL knows; alive: the asking context runs;
\* loads: the load calls made, in order; inbox: the messages delivered to an
\* instance and not yet handled; reading: for each token, how many
\* `blob.text()` a responder awaits; answers: the responses it has posted.
NoBroadcast ==
  [variant |-> "v18", registry |-> [r \in Responders |-> {}],
   alive |-> TRUE, loads |-> <<>>, inbox |-> [x \in Instances |-> <<>>],
   reading |-> [r \in Responders |-> [tok \in Tokens |-> 0]],
   answers |-> [r \in Responders |-> 0]]

BroadcastIdle == bcast = NoBroadcast

\* pc: how far the evaluation of the entry script has come; kind: the kind of
\* URL the worker was constructed from; deps: static imports of the user
\* module not yet evaluated; log: what has run, in order; failure: the error
\* that ended the evaluation; signal: the fatal errors the host has signalled.
NoEntry == [pc |-> "none", kind |-> "none", deps |-> 0, log |-> <<>>,
            failure |-> "none", signal |-> <<>>]

EntryIdle == entry = NoEntry

\* variant: the file whose _writev is installed; pc: "idle", "writing" (an
\* fs write is under way), "done", "crashed"; given: the chunks of the call;
\* chunks: the argument of the current invocation; fd: the chunk handed to
\* write; written: the chunks written, in order; cb: the arguments the
\* callback was invoked with; threw: the exception that escaped.
NoStdio == [variant |-> "v18", pc |-> "idle", given |-> <<>>, chunks |-> <<>>,
            fd |-> "none", written |-> <<>>, cb |-> <<>>, threw |-> "none"]

StdioIdle == stdio = NoStdio

\* pc: "idle", "requested", "responding", "ended", "failed"; out: the text
\* accumulated from the chunks; sent: the chunks the server sent; promise:
\* "none", "pending", "resolved", "rejected"; value: what it settled with;
\* uncaught: an 'error' event was emitted on an emitter with no listener.
NoFetch == [pc |-> "idle", out |-> <<>>, sent |-> <<>>, promise |-> "none",
             value |-> <<>>, uncaught |-> FALSE]

FetchIdle == fetch = NoFetch

\* The components other than the handle, not in use
ExtIdle ==
  /\ SourcesIdle /\ NestedIdle /\ HooksIdle /\ ScopeIdle /\ ReaderIdle
  /\ BroadcastIdle /\ EntryIdle /\ StdioIdle /\ FetchIdle

FacadeInit ==
  /\ impl \in Impls
  /\ focus \in EvTypes
  /\ phase = "idle"
  /\ ctorType = "absent"
  /\ hasWorker = FALSE
  /\ loadPending = FALSE
  /\ spawned = 0
  /\ listeners = [t \in EvTypes |-> <<>>]
  /\ slot = [t \in EvTypes |-> Null]
  /\ wired = 0
  /\ w2h = <<>>
  /\ h2w = <<>>
  /\ errq = <<>>
  /\ wphase = "none"
  /\ wListening = FALSE
  /\ portStarted = FALSE
  /\ exited = FALSE
  /\ terminated = FALSE
  /\ last = NoLast
  /\ hist = NoHist

Init == FacadeInit /\ ExtIdle

\* ------------------------------------------------------- constructor
\* Faulty variant: only an explicit classic type is rejected.
ModuleTypeUnlessClassic(type) == type # "classic"

\* `if (type !== 'module') throw`
ModuleType(type) == type = "module"

\* The loader handle reads a blob: source with the blocking reader and spawns
\* before #loadModule returns; the channel handle's #loadModule is async and
\* suspends at `await blob.text()` for a blob: source.
LoadsSynchronously(i, kind) == i = "loader" \/ kind # "blob"

\* `new NodeWorker(...)`, worker.on('exit'), worker.on('error'), this.#worker = worker
Spawn ==
  /\ spawned' = spawned + 1
  /\ hasWorker' = TRUE
  /\ wphase' = "booting"

Constructor(kind, type) ==
  /\ phase = "idle"
  /\ ctorType' = type
  /\ IF ~ModuleType(type)
       THEN /\ phase' = "threw"
            /\ UNCHANGED <<hasWorker, loadPending, spawned, wired, wphase>>
       ELSE /\ phase' = "ready"
            \* channel: port1.addEventListener('message', ...) in the constructor
            /\ wired' = IF impl = "channel" THEN 1 ELSE wired
            /\ IF LoadsSynchronously(impl, kind)
                 THEN Spawn /\ UNCHANGED loadPending
                 ELSE /\ loadPending' = TRUE
                      /\ UNCHANGED <<hasWorker, spawned, wphase>>
  /\ last' = NoLast
  /\ UNCHANGED <<ext, impl, focus, listeners, slot, w2h, h2w, errq, wListening,
                 portStarted, exited, terminated, hist>>

\* channel: the continuation of #loadModule after `await blob.text()`
LoadModuleResume ==
  /\ loadPending
  /\ loadPending' = FALSE
  /\ Spawn
  /\ last' = NoLast
  /\ UNCHANGED <<ext, impl, focus, phase, ctorType, listeners, slot, wired, w2h,
                 h2w, errq, wListening, portStarted, exited, terminated,
                 hist>>

\* ------------------------------------------------------- listeners
\* Faulty variant: registering a message listener never attaches a handler.
WiresNever(i, t) == FALSE

\* loader: every addEventListener('message', ...) call runs
\* this.#worker.on('message', ...); channel: the inherited EventTarget method.
WiresOnAdd(i, t) == i = "loader" /\ t = "message"

AddEventListener(t, fn) ==
  /\ phase = "ready"
  /\ t = focus
  /\ WiresOnAdd(impl, t) => wired < MaxWire
  /\ listeners' = [listeners EXCEPT ![t] = ETAdd(@, fn)]
  /\ wired' = IF WiresOnAdd(impl, t) THEN wired + 1 ELSE wired
  /\ hist' = [hist EXCEPT !.userReg = @ \cup {fn},
                          !.order = ETAdd(@, <<"listener", fn>>),
                          !.mixed = @ \/ fn = slot[t]]
  /\ last' = NoLast
  /\ UNCHANGED <<ext, impl, focus, phase, ctorType, hasWorker, loadPending,
                 spawned, slot, w2h, h2w, errq, wphase, wListening,
                 portStarted, exited, terminated>>

RemoveEventListener(t, fn) ==
  /\ phase = "ready"
  /\ t = focus
  /\ listeners' = [listeners EXCEPT ![t] = ETRemove(@, fn)]
  /\ hist' = [hist EXCEPT !.userReg = @ \ {fn},
                          !.order = ETRemove(@, <<"listener", fn>>),
                          !.mixed = @ \/ fn = slot[t]]
  /\ last' = NoLast
  /\ UNCHANGED <<ext, impl, focus, phase, ctorType, hasWorker, loadPending,
                 spawned, slot, wired, w2h, h2w, errq, wphase, wListening,
                 portStarted, exited, terminated>>

\* ------------------------------------------------------- onmessage / onerror
\* Faulty variant: the previous handler is left in the listener set.
SlotKeepsOld(l, old) == l

\* loader: `if (this.#onX) this.removeEventListener(type, this.#onX)`
SlotUnregister(l, old) == IF old # Null THEN ETRemove(l, old) ELSE l

\* loader: `this.#onX = fn; if (typeof fn === 'function') ... else this.#onX = null`
SlotStored(v) == IF v \in Fns THEN v ELSE Null

SlotHistory(t, v) ==
  [hist EXCEPT
     !.replaced = (@ \cup ({slot[t]} \cap Fns)) \ {v},
     !.order = SelectSeq(@, LAMBDA e : e[1] # "handler")
                 \o (IF v \in Fns THEN << <<"handler", v>> >> ELSE <<>>),
     !.mixed = @ \/ v \in hist.userReg]

SetSlotLoader(t, v) ==
  /\ impl = "loader"
  /\ (v \in Fns /\ WiresOnAdd(impl, t)) => wired < MaxWire
  /\ slot' = [slot EXCEPT ![t] = SlotStored(v)]
  /\ listeners' = [listeners EXCEPT ![t] =
                     IF v \in Fns THEN ETAdd(SlotUnregister(@, slot[t]), v)
                                  ELSE SlotUnregister(@, slot[t])]
  /\ wired' = IF v \in Fns /\ WiresOnAdd(impl, t) THEN wired + 1 ELSE wired

\* channel: onmessage and onerror are plain public fields
SetSlotChannel(t, v) ==
  /\ impl = "channel"
  /\ slot' = [slot EXCEPT ![t] = v]
  /\ UNCHANGED <<listeners, wired>>

SetSlot(t, v) ==
  /\ phase = "ready"
  /\ t = focus
  /\ (SetSlotLoader(t, v) \/ SetSlotChannel(t, v))
  /\ hist' = SlotHistory(t, v)
  /\ last' = NoLast
  /\ UNCHANGED <<ext, impl, focus, phase, ctorType, hasWorker, loadPending,
                 spawned, w2h, h2w, errq, wphase, wListening, portStarted,
                 exited, terminated>>

\* ------------------------------------------------------- postMessage
\* Faulty variant: the newest message overtakes the queued ones.
EnqueueFirst(q, m) == <<m>> \o q

\* `this.#worker.postMessage(...args)` / `port1.postMessage`: the message is
\* put at the tail of the channel's queue.
Enqueue(q, m) == Append(q, m)

\* loader: the send goes through this.#worker; channel: postMessage is
\* port1.postMessage bound in the constructor, which needs no #worker.
SendNeedsWorker(i) == i = "loader"

\* The code never reads _exited before sending.
SendAttempted(ex) == TRUE

\* Messages the module has posted on its own
Posted == Cardinality({i \in 1..Len(hist.sentW) : hist.sentW[i][1] = "msg"})

WorkerAlive == wphase \in {"booting", "running"}

PostMessage(v) ==
  /\ phase = "ready"
  /\ Len(hist.sentH) + Posted < MaxMsgs
  /\ LET id == Len(hist.sentH) + 1
         fails == SendNeedsWorker(impl) /\ ~hasWorker
         tried == ~fails /\ SendAttempted(exited)
     IN /\ h2w' = IF tried /\ ~exited
                    THEN Enqueue(h2w, [id |-> id, data |-> v]) ELSE h2w
        /\ hist' = [hist EXCEPT
                      !.sentH = Append(@, v),
                      !.early = IF tried /\ ~exited /\ ~wListening
                                  THEN @ \cup {id} ELSE @]
        /\ last' = [Outcome("post", <<v>>, fails) EXCEPT
                      !.events = IF tried THEN 1 ELSE 0, !.id = id]
  /\ UNCHANGED <<ext, impl, focus, phase, ctorType, hasWorker, loadPending,
                 spawned, listeners, slot, wired, w2h, errq, wphase,
                 wListening, portStarted, exited, terminated>>

\* ------------------------------------------------------- terminate
\* Faulty variant: a second call is refused.
TerminateOnce(hw, term) ==
  IF hw /\ ~term THEN <<TRUE, FALSE>> ELSE <<term, TRUE>>

\* `this.#worker.terminate()`: the native request; a TypeError when #worker
\* is still undefined.  Result: <<terminated, threw>>.
TerminateEffect(hw, term) == IF hw THEN <<TRUE, FALSE>> ELSE <<term, TRUE>>

Terminate ==
  /\ phase = "ready"
  /\ terminated' = TerminateEffect(hasWorker, terminated)[1]
  /\ last' = Outcome("terminate", <<terminated>>,
                      TerminateEffect(hasWorker, terminated)[2])
  /\ UNCHANGED <<ext, impl, focus, phase, ctorType, hasWorker, loadPending,
                 spawned, listeners, slot, wired, w2h, h2w, errq, wphase,
                 wListening, portStarted, exited, hist>>

\* ------------------------------------------------------- the user module
\* The module calls postMessage(v): parentPort.postMessage / port.postMessage
WorkerPostMessage(v) ==
  /\ WorkerAlive
  /\ Len(hist.sentH) + Posted < MaxMsgs
  /\ w2h' = Enqueue(w2h, [id |-> Len(hist.sentW) + 1, re |-> 0,
                          data |-> <<"msg", v>>])
  /\ hist' = [hist EXCEPT !.sentW = Append(@, <<"msg", v>>)]
  /\ last' = NoLast
  /\ UNCHANGED <<ext, impl, focus, phase, ctorType, hasWorker, loadPending,
                 spawned, listeners, slot, wired, h2w, errq, wphase,
                 wListening, portStarted, exited, terminated>>

\* loader (pre-run scope): addEventListener('message', ...) is
\* parentPort.addEventListener, which starts the port; channel: the listener
\* goes to the global EventTarget and the port is started by setupListeners.
StartsPortOnListen(i) == i = "loader"

\* The module registers its message handler (addEventListener or onmessage).
WorkerAddEventListener ==
  /\ WorkerAlive
  /\ ~wListening
  /\ wListening' = TRUE
  /\ portStarted' = (portStarted \/ StartsPortOnListen(impl))
  /\ last' = NoLast
  /\ UNCHANGED <<ext, impl, focus, phase, ctorType, hasWorker, loadPending,
                 spawned, listeners, slot, wired, w2h, h2w, errq, wphase,
                 exited, terminated, hist>>

\* Faulty variant: every implementation starts the port when the import ends.
StartsPortOnLoadAlways(i) == TRUE

\* The import of the user module has completed; channel:
\* `import(mod).then(setupListeners)` adds the port's message listener.
StartsPortOnLoad(i) == i = "channel"

ModuleLoaded ==
  /\ wphase = "booting"
  /\ wphase' = "running"
  /\ portStarted' = (portStarted \/ StartsPortOnLoad(impl))
  /\ hist' = [hist EXCEPT !.loadedBare = ~wListening]
  /\ last' = NoLast
  /\ UNCHANGED <<ext, impl, focus, phase, ctorType, hasWorker, loadPending,
                 spawned, listeners, slot, wired, w2h, h2w, errq, wListening,
                 exited, terminated>>

\* A message from the orchestrator is dispatched in the context; the module's
\* handler echoes it: postMessage(['received message event', evt.data]).
WorkerOnMessage ==
  /\ WorkerAlive
  /\ portStarted
  /\ h2w # <<>>
  /\ LET m == Head(h2w)
     IN /\ h2w' = Tail(h2w)
        /\ IF wListening
             THEN /\ w2h' = Enqueue(w2h, [id |-> Len(hist.sentW) + 1,
                                          re |-> m.id,
                                          data |-> <<"echo", m.data>>])
                  /\ hist' = [hist EXCEPT
                                !.seenW = Append(@, m.id),
                                !.sentW = Append(@, <<"echo", m.data>>)]
             ELSE /\ w2h' = w2h
                  /\ hist' = [hist EXCEPT !.lostW = @ \cup {m.id}]
  /\ last' = NoLast
  /\ UNCHANGED <<ext, impl, focus, phase, ctorType, hasWorker, loadPending,
                 spawned, listeners, slot, wired, errq, wphase, wListening,
                 portStarted, exited, terminated>>

\* An error escapes the module: the context's fatal-error signal.
WorkerThrows(e) ==
  /\ WorkerAlive
  /\ wphase' = "dead"
  /\ errq' = Append(errq, e)
  /\ hist' = [hist EXCEPT !.thrown = Append(@, e)]
  /\ last' = NoLast
  /\ UNCHANGED <<ext, impl, focus, phase, ctorType, hasWorker, loadPending,
                 spawned, listeners, slot, wired, w2h, h2w, wListening,
                 portStarted, exited, terminated>>

\* close() / process.exit(), or nothing left to run in the context
WorkerClose ==
  /\ WorkerAlive
  /\ wphase' = "dead"
  /\ last' = NoLast
  /\ UNCHANGED <<ext, impl, focus, phase, ctorType, hasWorker, loadPending,
                 spawned, listeners, slot, wired, w2h, h2w, errq, wListening,
                 portStarted, exited, terminated, hist>>

\* ------------------------------------------------------- native signals
\* Faulty variant: the event carries the envelope instead of the value.
EventDataWrapped(d) == <<"data", d>>

\* `new MessageEvent('message', { data })`
EventData(d) == d

\* `new ErrorEvent('error', { error })`
EventError(e) == e

\* Events one native message makes the handle dispatch: the loader handle has
\* one forwarding handler per worker.on('message', ...) call, the channel
\* handle the single port1 listener.
EventsPerMessage(n) == n

RECURSIVE Repeat(_, _)
Repeat(l, n) == IF n = 0 THEN <<>> ELSE l \o Repeat(l, n - 1)

\* channel: `this.dispatchEvent(event); this.onX?.(event)`
SlotCall(t) == IF impl = "channel" /\ slot[t] \in Fns THEN <<slot[t]>> ELSE <<>>

SlotCallThrows(t) == impl = "channel" /\ slot[t] = NonFn

\* Faulty variant: a message that nothing heard is kept for later.
HeldUntilHeard(q, heard) == IF heard THEN Tail(q) ELSE q

\* The native side emits a message once, whether or not a handler is
\* attached and whether or not the handle has listeners: nothing in
\* addEventListener or in the port1 listener keeps it.
Emitted(q, heard) == Tail(q)

\* worker.on('message', data => this.dispatchEvent(new MessageEvent(...)))
OnMessage ==
  /\ spawned > 0
  /\ ~exited
  /\ w2h # <<>>
  /\ LET m == Head(w2h)
         n == EventsPerMessage(wired)
         calls == Repeat(listeners["message"] \o SlotCall("message"), n)
         quiet == IF calls = <<>> THEN {m.id} ELSE {}
     IN /\ w2h' = Emitted(w2h, calls # <<>>)
        /\ last' = [kind |-> "message", events |-> n,
                    calls |-> calls,
                    id |-> m.id, data |-> EventData(m.data),
                    threw |-> (n > 0 /\ SlotCallThrows("message"))]
        /\ hist' = IF n > 0
                     THEN [hist EXCEPT !.seenH = Append(@, m.id),
                                       !.echoSeen = @ \cup ({m.re} \ {0}),
                                       !.unheard = @ \cup quiet]
                     ELSE [hist EXCEPT !.lostH = @ \cup {m.id},
                                       !.unheard = @ \cup quiet]
  /\ UNCHANGED <<ext, impl, focus, phase, ctorType, hasWorker, loadPending,
                 spawned, listeners, slot, wired, h2w, errq, wphase,
                 wListening, portStarted, exited, terminated>>

\* Faulty variant: the error signal marks the handle as exited as well.
ExitedAfterAny(signal, ex) == TRUE

\* The value of this._exited after a native signal has been handled: only
\* the 'exit' handler assigns it.
ExitedAfter(signal, ex) == IF signal = "exit" THEN TRUE ELSE ex

\* worker.on('error', error => this.dispatchEvent(new ErrorEvent(...)))
OnError ==
  /\ spawned > 0
  /\ ~exited
  /\ errq # <<>>
  /\ errq' = Tail(errq)
  /\ exited' = ExitedAfter("error", exited)
  /\ last' = [kind |-> "error", events |-> 1,
              calls |-> listeners["error"] \o SlotCall("error"),
              id |-> 0, data |-> EventError(Head(errq)),
              threw |-> SlotCallThrows("error")]
  /\ hist' = [hist EXCEPT !.errEvents = @ + 1]
  /\ UNCHANGED <<ext, impl, focus, phase, ctorType, hasWorker, loadPending,
                 spawned, listeners, slot, wired, w2h, h2w, wphase,
                 wListening, portStarted, terminated>>

\* worker.on('exit', () => { this._exited = true }).  The host emits 'exit'
\* after the context has stopped, its fatal error has been emitted and the
\* messages it had posted have been drained to the 'message' handlers.
OnExit ==
  /\ spawned > 0
  /\ ~exited
  /\ wphase = "dead" \/ (terminated /\ WorkerAlive)
  /\ errq = <<>>
  /\ w2h = <<>>
  /\ exited' = ExitedAfter("exit", exited)
  /\ wphase' = "exited"
  /\ last' = NoLast
  /\ UNCHANGED <<ext, impl, focus, phase, ctorType, hasWorker, loadPending,
                 spawned, listeners, slot, wired, w2h, h2w, errq, wListening,
                 portStarted, terminated, hist>>

\* ------------------------------------------------------- module source
\* Characters of a source text: an ordinary one, the single quote, the
\* percent sign and two hexadecimal digits.
Chars == {"a", "'", "%", "2", "5"}

Texts == UNION {[1..n -> Chars] : n \in 0..MaxLen}

HexDigits == {"2", "5"}

\* The character a two-digit escape stands for
Unescaped(h, l) ==
  CASE h = "2" /\ l = "2" -> "\""
    [] h = "2" /\ l = "5" -> "%"
    [] h = "5" /\ l = "2" -> "R"
    [] OTHER              -> "U"

\* encodeURIComponent: the quote is not escaped, the percent sign is
RECURSIVE EncodeURIComponent(_)
EncodeURIComponent(s) ==
  IF s = <<>> THEN <<>>
  ELSE (IF Head(s) = "%" THEN <<"%", "2", "5">> ELSE <<Head(s)>>)
         \o EncodeURIComponent(Tail(s))

\* The host's decoding of the body of a data: URL
RECURSIVE PercentDecode(_)
PercentDecode(s) ==
  IF s = <<>> THEN <<>>
  ELSE IF Len(s) >= 3 /\ s[1] = "%" /\ s[2] \in HexDigits /\ s[3] \in HexDigits
         THEN <<Unescaped(s[2], s[3])>> \o PercentDecode(SubSeq(s, 4, Len(s)))
         ELSE <<Head(s)>> \o PercentDecode(Tail(s))

\* Buffer.from(code).toString('base64') and the host's decoding of it
Base64Encode(s) == [i \in 1..Len(s) |-> <<"b64", s[i]>>]

Base64Decode(s) == [i \in 1..Len(s) |-> s[i][2]]

\* The data: URL that carries a source text (its body, after the media type)
DataUrlBody(t) == EncodeURIComponent(t)

\* loader, blob: the text read by the blocking reader is appended to the
\* import of the pre-run script and the whole is a base64 data: URL, which
\* the context evaluates.
LoaderBlobEntry(t) == Runs(Base64Decode(Base64Encode(t)))

\* loader, other URLs: the entry is
\*   data:text/javascript,import '<preRun>';await import('<url>');
\* The host decodes the entry's body, the string literal of the import ends at
\* the first quote, and the URL in it is loaded (and decoded) in its turn.
LoaderUrlEntry(body) ==
  LET literal == PercentDecode(body)
  IN IF "'" \in Range(literal) THEN Fails("SyntaxError")
                               ELSE Runs(PercentDecode(literal))

\* channel, blob: `data:text/javascript,${encodeURIComponent(code)}` is
\* imported by the context; a data: URL is imported as it is.
ChannelBlobEntry(t) == Runs(PercentDecode(EncodeURIComponent(t)))

ChannelUrlEntry(body) == Runs(PercentDecode(body))

\* What a context constructed from a URL of the given kind evaluates
LoadModule(i, kind, t) ==
  CASE i = "loader"  /\ kind = "blob" -> LoaderBlobEntry(t)
    [] i = "loader"  /\ kind = "data" -> LoaderUrlEntry(DataUrlBody(t))
    [] i = "channel" /\ kind = "blob" -> ChannelBlobEntry(t)
    [] OTHER                          -> ChannelUrlEntry(DataUrlBody(t))

\* A worker is constructed from the blob: URL / the data: URL of the text.
BootSource(kind) ==
  /\ booted[kind] = NotBooted
  /\ booted' = [booted EXCEPT ![kind] = LoadModule(impl, kind, text)]
  /\ UNCHANGED <<facade, text, nested, resolved, loaded, scope, reader, bcast,
                 entry, stdio, fetch>>

BootBlob == BootSource("blob")

BootData == BootSource("data")

\* ------------------------------------------------------- nested worker
\* Native 'message' handlers of a handle on which `onmessage = fn` was
\* assigned once after construction: the channel handle's port1 listener of
\* the constructor, the loader handle's worker.on('message') of the setter.
HandlersAfterOnmessage(i) ==
  (IF i = "channel" THEN 1 ELSE 0) + (IF WiresOnAdd(i, "message") THEN 1 ELSE 0)

\* The body of the outer module, run to completion:
\*   const worker = new Worker(url, { type: 'module' })
\*   worker.onmessage = evt => postMessage(evt.data)
\* with the Worker constructor the scope exposes.
OuterConstructsNested(kind) ==
  /\ WorkerAlive
  /\ nested.phase = "none"
  /\ nested' = [nested EXCEPT
                  !.phase = "ready",
                  !.slot = "forward",
                  !.wired = HandlersAfterOnmessage(impl),
                  !.spawned = LoadsSynchronously(impl, kind),
                  !.loadPending = ~LoadsSynchronously(impl, kind)]
  /\ last' = NoLast
  /\ UNCHANGED <<impl, focus, phase, ctorType, hasWorker, loadPending,
                 spawned, listeners, slot, wired, w2h, h2w, errq, wphase,
                 wListening, portStarted, exited, terminated, hist, text,
                 booted, resolved, loaded, scope, reader,
                 bcast,
                 entry, stdio, fetch>>

ModuleConstructsNested == \E k \in {"blob", "data"} : OuterConstructsNested(k)

\* channel: the nested handle's #loadModule resumes after `await blob.text()`
NestedLoadResume ==
  /\ nested.loadPending
  /\ nested' = [nested EXCEPT !.loadPending = FALSE, !.spawned = TRUE]
  /\ last' = NoLast
  /\ UNCHANGED <<impl, focus, phase, ctorType, hasWorker, loadPending,
                 spawned, listeners, slot, wired, w2h, h2w, errq, wphase,
                 wListening, portStarted, exited, terminated, hist, text,
                 booted, resolved, loaded, scope, reader,
                 bcast,
                 entry, stdio, fetch>>

\* The nested module calls postMessage(v).
NestedPostMessage(v) ==
  /\ nested.spawned
  /\ Len(nested.sent) < MaxMsgs
  /\ nested' = [nested EXCEPT
                  !.inbox = Enqueue(@, [id |-> Len(nested.sent) + 1, data |-> v]),
                  !.sent = Append(@, v)]
  /\ last' = NoLast
  /\ UNCHANGED <<impl, focus, phase, ctorType, hasWorker, loadPending,
                 spawned, listeners, slot, wired, w2h, h2w, errq, wphase,
                 wListening, portStarted, exited, terminated, hist, text,
                 booted, resolved, loaded, scope, reader,
                 bcast,
                 entry, stdio, fetch>>

NestedPosts == \E v \in Vals : NestedPostMessage(v)

\* The messages the forwarding handler posts when it is invoked n times with
\* an event carrying d: `postMessage(evt.data)` on the outer scope.
RECURSIVE Forwarded(_, _, _)
Forwarded(d, first, n) ==
  IF n = 0 THEN <<>>
  ELSE <<[id |-> first, re |-> 0, data |-> <<"msg", d>>]>>
         \o Forwarded(d, first + 1, n - 1)

\* The nested handle's native 'message' handler runs in the outer context:
\* it dispatches the event, the onmessage handler forwards its data.
NestedOnMessage ==
  /\ WorkerAlive
  /\ nested.phase = "ready"
  /\ nested.inbox # <<>>
  /\ LET m == Head(nested.inbox)
         n == IF nested.slot = "forward" THEN EventsPerMessage(nested.wired)
                                         ELSE 0
         out == Forwarded(EventData(m.data), Len(hist.sentW) + 1, n)
     IN /\ nested' = [nested EXCEPT !.inbox = Tail(@),
                                    !.seen = IF n > 0 THEN Append(@, m.id) ELSE @]
        /\ w2h' = w2h \o out
        /\ hist' = [hist EXCEPT
                      !.sentW = @ \o [k \in 1..Len(out) |-> out[k].data]]
  /\ last' = NoLast
  /\ UNCHANGED <<impl, focus, phase, ctorType, hasWorker, loadPending,
                 spawned, listeners, slot, wired, h2w, errq, wphase,
                 wListening, portStarted, exited, terminated, text, booted,
                 resolved, loaded, scope, reader, bcast,
                 entry, stdio, fetch>>

\* ------------------------------------------------------- module hooks
\* A specifier or URL is a sequence of pieces of text.
Https    == <<"https:">>
HttpsSS  == <<"https:", "//">>
BlobP    == <<"blob:">>
Sentinel == <<"data:text/javascript;,", "\"", "blob:", "nodedata:">>

RemoteUrl    == <<"https:", "//", "h/", "a.js">>
RemoteBare   == <<"https:", "h/", "a.js">>
BlobUrl      == <<"blob:", "nodedata:", "uuid">>
WrappedBlob  == <<"data:text/javascript;,", "\"", "blob:", "nodedata:", "uuid", "\"">>
RelativePath == <<"./", "b.js">>
Builtin      == <<"node:", "fs">>
FileUrl      == <<"file:", "//", "w/", "a.js">>
DataUrl      == <<"data:", "text/javascript,", "x">>

Specifiers == {RemoteUrl, RemoteBare, BlobUrl, WrappedBlob, RelativePath,
               Builtin, FileUrl, DataUrl}

\* context.parentURL; the empty text when the context has none
ParentURLs == {<<>>, RemoteUrl, FileUrl, BlobUrl, DataUrl}

\* The number of characters of a piece
PieceLen(t) ==
  CASE t = "https:" -> 6 [] t = "//" -> 2 [] t = "blob:" -> 5
    [] t = "nodedata:" -> 9 [] t = "uuid" -> 36 [] t = "\"" -> 1
    [] t = "data:text/javascript;," -> 22 [] t = "./" -> 2
    [] t = "node:" -> 5 [] t = "file:" -> 5 [] t = "data:" -> 5
    [] t = "text/javascript," -> 16 [] t = "fs" -> 2 [] t = "x" -> 1
    [] OTHER -> 4

\* String.prototype.startsWith
StartsWith(u, prefix) ==
  Len(u) >= Len(prefix) /\ SubSeq(u, 1, Len(prefix)) = prefix

\* String.prototype.includes
Includes(u, part) ==
  \E i \in 1..Len(u) :
    i + Len(part) - 1 <= Len(u) /\ SubSeq(u, i, i + Len(part) - 1) = part

\* u.slice(-n): the last n characters; a piece cut in two is kept as "..."
RECURSIVE LastChars(_, _)
LastChars(u, n) ==
  IF n <= 0 \/ u = <<>> THEN <<>>
  ELSE LET t == u[Len(u)]
       IN IF PieceLen(t) <= n
            THEN LastChars(SubSeq(u, 1, Len(u) - 1), n - PieceLen(t)) \o <<t>>
            ELSE <<"...">>

\* url.slice(-51, -1)
Slice51(u) ==
  IF u = <<>> THEN <<>>
  ELSE IF PieceLen(u[Len(u)]) = 1
         THEN LastChars(SubSeq(u, 1, Len(u) - 1), 50)
         ELSE LastChars(SubSeq(u, 1, Len(u) - 1) \o <<"...">>, 50)

HasScheme(u) ==
  u # <<>> /\ u[1] \in {"https:", "blob:", "node:", "file:", "data:",
                       "data:text/javascript;,"}

\* new URL(specifier, parentURL).href
URLHref(specifier, base) ==
  IF HasScheme(specifier) THEN specifier
  ELSE SubSeq(base, 1, Len(base) - 1) \o Tail(specifier)

\* Faulty variant: the parent is never taken for a remote one.
ParentNeverRemote(parentURL) == FALSE

\* `parentURL && parentURL.startsWith('https:')`
ParentIsRemote(parentURL) == parentURL # <<>> /\ StartsWith(parentURL, Https)

\* resolve(specifier, context, nextResolve): the same text in both files
Resolve(v, specifier, parentURL) ==
  IF StartsWith(specifier, Https)
    THEN [shortCircuit |-> TRUE, url |-> specifier, next |-> <<>>]
  ELSE IF ParentIsRemote(parentURL)
    THEN [shortCircuit |-> TRUE, url |-> URLHref(specifier, parentURL),
          next |-> <<>>]
  ELSE IF StartsWith(specifier, BlobP)
    THEN [shortCircuit |-> TRUE, url |-> specifier, next |-> <<>>]
  ELSE [shortCircuit |-> FALSE, url |-> <<>>,
        next |-> << <<specifier, parentURL>> >>]

\* The test that sends load to the broadcast channel, and the token it asks:
\* v18 `url.startsWith('blob:')`, token url; v16
\* `url.includes('data:text/javascript;,"blob:nodedata:')`, token
\* url.slice(-51, -1).
AsksBroadcast(v, url) ==
  IF v = "v18" THEN StartsWith(url, BlobP) ELSE Includes(url, Sentinel)

BroadcastToken(v, url) == IF v = "v18" THEN url ELSE Slice51(url)

\* load(url, context, nextLoad) up to the source it returns
Load(v, url) ==
  IF StartsWith(url, HttpsSS)
    THEN [branch |-> "fetch", shortCircuit |-> TRUE, format |-> "module",
          request |-> url, next |-> <<>>]
  ELSE IF AsksBroadcast(v, url)
    THEN [branch |-> "broadcast", shortCircuit |-> TRUE, format |-> "module",
          request |-> BroadcastToken(v, url), next |-> <<>>]
  ELSE [branch |-> "next", shortCircuit |-> FALSE, format |-> "none",
        request |-> <<>>, next |-> <<url>>]

\* The host calls the resolve hook.
CallResolve(specifier, parentURL) ==
  /\ resolved' = [called |-> TRUE, specifier |-> specifier,
                  parentURL |-> parentURL,
                  out |-> [v \in Variants |-> Resolve(v, specifier, parentURL)]]
  /\ UNCHANGED <<facade, text, booted, nested, loaded, scope, reader, bcast,
                 entry, stdio, fetch>>

HostResolves ==
  \E sp \in Specifiers, pa \in ParentURLs : CallResolve(sp, pa)

\* The host calls the load hook.
CallLoad(url, fromResolve) ==
  /\ loaded' = [called |-> TRUE, url |-> url, fromResolve |-> fromResolve,
                out |-> [v \in Variants |-> Load(v, url)]]
  /\ UNCHANGED <<facade, text, booted, nested, resolved, scope, reader, bcast,
                 entry, stdio, fetch>>

HostLoads == \E url \in Specifiers \ {RelativePath} : CallLoad(url, FALSE)

\* The host loads the URL the resolve hook has returned by short-circuit.
HostLoadsResolved ==
  /\ resolved.called
  /\ \E v \in Variants :
       /\ resolved.out[v].shortCircuit
       /\ CallLoad(resolved.out[v].url, TRUE)

\* ------------------------------------------------------- worker scope
\* The first argument of a call on the scope: a string, or an Event object
\* of some type.
StringArg(t) == [isString |-> TRUE, type |-> t]

EventArg(t) == [isString |-> FALSE, type |-> t]

\* `args[0] === 'message'`
IsMessage(arg) == arg.isString /\ arg.type = "message"

\* addEventListener(...args): parentPort for 'message', super otherwise
ScopeAddEventListener(t, fn) ==
  /\ scope' = [scope EXCEPT
                 !.port = IF IsMessage(StringArg(t)) THEN ETAdd(@, fn) ELSE @,
                 !.target[t] = IF IsMessage(StringArg(t)) THEN @ ELSE ETAdd(@, fn),
                 !.userReg = IF t = "message" THEN @ \cup {fn} ELSE @,
                 !.out = NoScopeOut]
  /\ UNCHANGED <<facade, text, booted, nested, resolved, loaded, reader, bcast,
                 entry, stdio, fetch>>

\* removeEventListener(...args)
ScopeRemoveEventListener(t, fn) ==
  /\ scope' = [scope EXCEPT
                 !.port = IF IsMessage(StringArg(t)) THEN ETRemove(@, fn) ELSE @,
                 !.target[t] = IF IsMessage(StringArg(t)) THEN @ ELSE ETRemove(@, fn),
                 !.userReg = IF t = "message" THEN @ \ {fn} ELSE @,
                 !.out = NoScopeOut]
  /\ UNCHANGED <<facade, text, booted, nested, resolved, loaded, reader, bcast,
                 entry, stdio, fetch>>

\* dispatchEvent(...args): `args[0] === 'message'` sends the call to
\* parentPort.dispatchEvent, which throws for an argument that is no Event;
\* any Event object goes to super.dispatchEvent.
ScopeDispatchEvent(arg) ==
  /\ scope' = [scope EXCEPT !.out =
                 IF IsMessage(arg)
                   THEN [kind |-> "dispatch", type |-> arg.type,
                         calls |-> <<>>, threw |-> TRUE]
                 ELSE IF arg.isString
                   THEN [kind |-> "dispatch", type |-> arg.type,
                         calls |-> <<>>, threw |-> TRUE]
                 ELSE [kind |-> "dispatchEvent", type |-> arg.type,
                       calls |-> scope.target[arg.type], threw |-> FALSE]]
  /\ UNCHANGED <<facade, text, booted, nested, resolved, loaded, reader, bcast,
                 entry, stdio, fetch>>

\* Faulty variant: the previous handler stays on the port.
ScopeKeepsOld(l, old) == l

\* `const old = onmessage; if (old) this.removeEventListener('message', old)`
ScopeUnregister(l, old) == IF old # Null THEN ETRemove(l, old) ELSE l

\* set onmessage (fn)
ScopeSetOnmessage(v) ==
  /\ scope' = [scope EXCEPT
                 !.slot = IF v \in Fns THEN v ELSE Null,
                 !.port = IF v \in Fns
                            THEN ETAdd(ScopeUnregister(@, scope.slot), v)
                            ELSE ScopeUnregister(@, scope.slot),
                 !.replaced = (@ \cup ({scope.slot} \cap Fns)) \ {v},
                 !.out = [NoScopeOut EXCEPT !.kind = "set"]]
  /\ UNCHANGED <<facade, text, booted, nested, resolved, loaded, reader, bcast,
                 entry, stdio, fetch>>

\* A message from the orchestrator is dispatched at parentPort.
ScopeInbound ==
  /\ scope' = [scope EXCEPT !.out =
                 [kind |-> "inbound", type |-> "message",
                  calls |-> scope.port, threw |-> FALSE]]
  /\ UNCHANGED <<facade, text, booted, nested, resolved, loaded, reader, bcast,
                 entry, stdio, fetch>>

ModuleListens ==
  \E t \in ScopeTypes, fn \in Fns : ScopeAddEventListener(t, fn)

ModuleUnlistens ==
  \E t \in ScopeTypes, fn \in Fns : ScopeRemoveEventListener(t, fn)

ModuleDispatches ==
  \E t \in ScopeTypes :
    ScopeDispatchEvent(EventArg(t)) \/ ScopeDispatchEvent(StringArg(t))

ModuleSetsOnmessage == \E v \in SlotValues : ScopeSetOnmessage(v)

\* ------------------------------------------------------- blob reader
\* blob: URLs present in the registry, and the text of their blobs
BlobTokens == {"blob1", "blob2", "blob3"}

BlobText(tok) == <<"text of", tok>>

\* createBlobReader: the first call spawns the responder context, later
\* calls reuse it (`createBlobReader = () => blobReader`).
ReaderContext(rpc) == IF rpc = "none" THEN "booting" ELSE rpc

\* Faulty variant: the factory stays bound and runs on every call.
ReboundNever(b) == b

\* `createBlobReader = () => blobReader`
Rebound(b) == "reader"

\* #loadModule: `createBlobReader()`, then in readBlobUrlSync:
\* `const blob = resolveObjectURL(blobUrl); localPort.postMessage(blob)`
ReaderPost(tok) ==
  /\ reader.pc = "idle"
  /\ Len(reader.results) < MaxReads
  /\ ~reader.threw
  /\ reader' = [reader EXCEPT !.pc = "posted", !.token = tok,
                              !.request = Enqueue(@, tok),
                              !.rpc = ReaderContext(@),
                              !.made = IF reader.bound = "factory"
                                         THEN @ + 1 ELSE @,
                              !.bound = Rebound(@)]
  /\ UNCHANGED <<facade, text, booted, nested, resolved, loaded, scope, bcast,
                 entry, stdio, fetch>>

ReaderRequests == \E tok \in BlobTokens : ReaderPost(tok)

\* Atomics.wait(int32, 0, 0) blocks while the cell holds the expected value.
WaitBlocks(cell, expected) == cell = expected

\* readBlobUrlSync: `Atomics.wait(int32, 0, 0)`
ReaderWait ==
  /\ reader.pc = "posted"
  /\ reader' = [reader EXCEPT
                  !.pc = IF WaitBlocks(reader.cell, 0) THEN "waiting"
                                                       ELSE "woken"]
  /\ UNCHANGED <<facade, text, booted, nested, resolved, loaded, scope, bcast,
                 entry, stdio, fetch>>

\* responder: the context has started and its listener is on the port
ResponderBoot ==
  /\ reader.rpc = "booting"
  /\ reader' = [reader EXCEPT !.rpc = "idle"]
  /\ UNCHANGED <<facade, text, booted, nested, resolved, loaded, scope, bcast,
                 entry, stdio, fetch>>

\* responder: the port's message listener is called with the blob
ResponderReceive ==
  /\ reader.rpc = "idle"
  /\ reader.request # <<>>
  /\ reader' = [reader EXCEPT !.rpc = "reading",
                              !.rtoken = Head(reader.request),
                              !.request = Tail(@)]
  /\ UNCHANGED <<facade, text, booted, nested, resolved, loaded, scope, bcast,
                 entry, stdio, fetch>>

\* responder: `port.postMessage(await evt.data.text())`
ResponderPost ==
  /\ reader.rpc = "reading"
  /\ reader' = [reader EXCEPT !.rpc = "posted",
                              !.response = Enqueue(@, BlobText(reader.rtoken))]
  /\ UNCHANGED <<facade, text, booted, nested, resolved, loaded, scope, bcast,
                 entry, stdio, fetch>>

\* responder: `Atomics.notify(new Int32Array(shared), 0)` wakes the agents
\* that are waiting on the cell at that moment; the cell is not written.
ResponderNotify ==
  /\ reader.rpc = "posted"
  /\ reader' = [reader EXCEPT
                  !.rpc = "idle",
                  !.pc = IF @ = "waiting" THEN "woken" ELSE @]
  /\ UNCHANGED <<facade, text, booted, nested, resolved, loaded, scope, bcast,
                 entry, stdio, fetch>>

\* readBlobUrlSync: `return receiveMessageOnPort(localPort).message`;
\* receiveMessageOnPort returns undefined when the queue is empty.
ReaderReturn ==
  /\ reader.pc = "woken"
  /\ reader' = IF reader.response = <<>>
                 THEN [reader EXCEPT !.pc = "idle", !.threw = TRUE]
                 ELSE [reader EXCEPT !.pc = "idle",
                                     !.results = Append(@, Head(reader.response)),
                                     !.response = Tail(@)]
  /\ UNCHANGED <<facade, text, booted, nested, resolved, loaded, scope, bcast,
                 entry, stdio, fetch>>

\* ------------------------------------------------------- broadcast resolver
\* `bc.postMessage(url)` / `bc.postMessage({url, source})`
Request(tok) == [kind |-> "request", url |-> tok, source |-> <<>>]

\* `const source = await blob.text()`
SourceOf(tok) == <<"source of", tok>>

Response(tok) == [kind |-> "response", url |-> tok, source |-> SourceOf(tok)]

\* A message posted on an instance is delivered to every other instance.
Broadcast(inbox, from, m) ==
  [x \in Instances |-> IF x = from THEN inbox[x] ELSE Append(inbox[x], m)]

\* load, blob branch: `bc.postMessage(url)`, then the promise's executor runs
\* `setTimeout(() => {}, 100)` and `bc.addEventListener('message', ...)`.
\* pc: "waiting" | "done"; timer: the 100 ms keep-alive; listening: the
\* listener is on bc; ignored: responses for another token it was called
\* with; late: matching responses it was called with once settled.
StartLoad(tok) ==
  /\ bcast.alive
  /\ Len(bcast.loads) < MaxLoads
  /\ bcast' = [bcast EXCEPT
                 !.loads = Append(@, [token |-> tok, pc |-> "waiting",
                                      source |-> <<>>, timer |-> "armed",
                                      listening |-> TRUE, ignored |-> 0,
                                      late |-> 0]),
                 !.inbox = Broadcast(@, "asker", Request(tok))]
  /\ UNCHANGED <<facade, text, booted, nested, resolved, loaded, scope,
                 reader,
                 entry, stdio, fetch>>

HookLoadsBlob == \E tok \in Tokens : StartLoad(tok)

\* Faulty variant: the url of a response is looked up as well.
RegistryHitByUrl(registry, m) == m.url \in registry

\* `const blob = resolveObjectURL(url); if (blob) ...`: a hit only for a
\* request whose token the responder's registry holds (a response is an
\* object, for which resolveObjectURL finds nothing).
RegistryHit(registry, m) == m.kind = "request" /\ m.url \in registry

\* A responder's message listener is called with the next message.
ResponderOnMessage(r) ==
  /\ bcast.inbox[r] # <<>>
  /\ LET m == Head(bcast.inbox[r])
     IN bcast' = [bcast EXCEPT
                    !.inbox[r] = Tail(@),
                    !.reading[r] = IF RegistryHit(bcast.registry[r], m)
                                     THEN [@ EXCEPT ![m.url] = @ + 1] ELSE @]
  /\ UNCHANGED <<facade, text, booted, nested, resolved, loaded, scope,
                 reader,
                 entry, stdio, fetch>>

ResponderListens == \E r \in Responders : ResponderOnMessage(r)

\* responder: `await blob.text()` has completed, `bc.postMessage({url, source})`
ResponderAnswer(r, tok) ==
  /\ bcast.reading[r][tok] > 0
  /\ bcast' = [bcast EXCEPT
                 !.reading[r][tok] = @ - 1,
                 !.answers[r] = @ + 1,
                 !.inbox = Broadcast(@, r, Response(tok))]
  /\ UNCHANGED <<facade, text, booted, nested, resolved, loaded, scope,
                 reader,
                 entry, stdio, fetch>>

ResponderAnswers ==
  \E r \in Responders, tok \in Tokens : ResponderAnswer(r, tok)

\* Faulty variant: the first response settles the load, whatever its token.
TokenMatchesAny(a, b) == TRUE

\* `evt.data.url === url` (v16: `=== blobUrl`)
TokenMatches(a, b) == a = b

\* v16 removes the listener once it has matched; v18 leaves it on bc.
RemovesListener(v) == v = "v16"

\* Faulty variant: the listener is not yet on the channel when a response
\* is dispatched.
LoadListenerLate(l, m) == l

\* The listener of one load is called with a message: `rs(evt.data.source)`
\* on a match, and a settled promise keeps its value.
LoadListener(l, m) ==
  IF ~l.listening THEN l
  ELSE IF m.kind = "response" /\ TokenMatches(m.url, l.token)
    THEN [l EXCEPT !.pc = "done",
                   !.source = IF l.pc = "done" THEN @ ELSE m.source,
                   !.late = IF l.pc = "done" THEN @ + 1 ELSE @,
                   !.listening = ~RemovesListener(bcast.variant)]
  ELSE [l EXCEPT !.ignored = @ + 1]

\* The asking context's bc dispatches the next message to its listeners.
AskerOnMessage ==
  /\ bcast.alive
  /\ bcast.inbox["asker"] # <<>>
  /\ LET m == Head(bcast.inbox["asker"])
     IN bcast' = [bcast EXCEPT
                    !.inbox["asker"] = Tail(@),
                    !.loads = [i \in 1..Len(bcast.loads) |->
                                 LoadListener(bcast.loads[i], m)]]
  /\ UNCHANGED <<facade, text, booted, nested, resolved, loaded, scope,
                 reader,
                 entry, stdio, fetch>>

\* The 100 ms timer of a load fires.
KeepAliveLapses ==
  /\ bcast.alive
  /\ \E i \in 1..Len(bcast.loads) :
       /\ bcast.loads[i].timer = "armed"
       /\ bcast' = [bcast EXCEPT !.loads[i].timer = "lapsed"]
  /\ UNCHANGED <<facade, text, booted, nested, resolved, loaded, scope,
                 reader,
                 entry, stdio, fetch>>

\* bc is unref'd (`bc?.unref()`) and a pending promise does not keep the
\* event loop alive: with its timers fired, no message delivered and a load
\* still pending, the asking context has nothing left to run and may exit.
AskerExits ==
  /\ bcast.alive
  /\ bcast.inbox["asker"] = <<>>
  /\ \E i \in 1..Len(bcast.loads) : bcast.loads[i].pc = "waiting"
  /\ \A i \in 1..Len(bcast.loads) : bcast.loads[i].timer = "lapsed"
  /\ bcast' = [bcast EXCEPT !.alive = FALSE]
  /\ UNCHANGED <<facade, text, booted, nested, resolved, loaded, scope,
                 reader,
                 entry, stdio, fetch>>

\* ------------------------------------------------------- entry script
MaxDeps == 2      \* static imports of the user module

\* What installs the scope: the pre-run script the loader handle's entry
\* imports, the workerThread function of the channel handle's entry.
Installer(i) == IF i = "loader" THEN "pre-run" ELSE "workerThread"

Deps(n) == [k \in 1..n |-> "dependency"]

\* The static imports of the entry script, in source order.  loader, blob:
\* `import '<preRun>'\n` followed by the text of the blob, whose own imports
\* come after it; loader, other URLs: `import '<preRun>'` alone; channel: the
\* entry is the handle's own file.
StaticImports(i, kind, n) ==
  IF i = "loader"
    THEN <<"pre-run">> \o (IF kind = "blob" THEN Deps(n) ELSE <<>>)
    ELSE <<>>

\* What the body of the entry script runs.  loader, blob: the statements of
\* the user module; loader, other URLs: `await import('<url>')`; channel:
\* workerThread(), which installs the scope and ends with `import(mod)`.
EntryBody(i, kind, n) ==
  IF i = "loader"
    THEN (IF kind = "blob" THEN <<>> ELSE Deps(n)) \o <<"user module">>
    ELSE <<"workerThread">> \o Deps(n) \o <<"user module">>

\* Faulty variant: the user module is imported ahead of the pre-run script.
UserModuleFirst(i, kind, n) ==
  Deps(n) \o <<"user module", Installer(i)>>

\* A module's static imports are evaluated, in order, before its body.
EvaluationOrder(i, kind, n) ==
  StaticImports(i, kind, n) \o EntryBody(i, kind, n)

\* `new NodeWorker(url, ...)`: the host starts to evaluate the entry script.
EntryStart(kind, n) ==
  /\ entry.pc = "none"
  /\ entry' = [entry EXCEPT !.pc = "evaluating", !.kind = kind, !.deps = n]
  /\ UNCHANGED <<facade, text, booted, nested, resolved, loaded, scope,
                 reader, bcast, stdio, fetch>>

HostStartsEntry == \E k \in Kinds, n \in 0..MaxDeps : EntryStart(k, n)

\* The next module (or the installing function) runs to completion.
EntryStep ==
  /\ entry.pc = "evaluating"
  /\ LET order == EvaluationOrder(impl, entry.kind, entry.deps)
         log == Append(entry.log, order[Len(entry.log) + 1])
     IN entry' = [entry EXCEPT
                    !.log = log,
                    !.pc = IF Len(log) = Len(order) THEN "loaded" ELSE @]
  /\ UNCHANGED <<facade, text, booted, nested, resolved, loaded, scope,
                 reader, bcast, stdio, fetch>>

\* An error ends the evaluation, or escapes a handler of the loaded module.
\* loader: the entry script's evaluation is rejected (its top-level await
\* included); channel: `import(mod).then(setupListeners)` has no rejection
\* handler and the host raises the unhandled rejection.  Either way the
\* host signals the context's fatal error.
EntryFails(e) ==
  /\ entry.pc \in {"evaluating", "loaded"}
  /\ entry' = [entry EXCEPT !.pc = "failed", !.failure = e,
                            !.signal = Append(@, e)]
  /\ UNCHANGED <<facade, text, booted, nested, resolved, loaded, scope,
                 reader, bcast, stdio, fetch>>

EntryThrows == \E e \in Errs : EntryFails(e)

\* ------------------------------------------------------- _writev
MaxChunks == 3    \* chunks of one _writev call

ChunkNames == {"c1", "c2", "c3"}

ChunkLists == UNION {[1..n -> ChunkNames] : n \in 1..MaxChunks}

\* The first argument of an invocation: an array of chunks, or a string
AnArray(items) == [array |-> TRUE, items |-> items]

AString == [array |-> FALSE, items |-> <<>>]

\* `import { write } from 'node:fs'` is in the pre-run script (v18 file) and
\* is missing from node-loader-v16.js.
WriteIsImported(v) == v = "v18"

\* The argument of the recursive call: v16 `this._writev(chunks, cb)`,
\* pre-run `this._writev("chunks", cb)`.
Recursed(v, rest) == IF v = "v16" THEN AnArray(rest) ELSE AString

\* One invocation of _writev(chunks, cb) up to the call of write:
\* `const { chunk, encoding } = chunks.pop()` takes the last element, and
\* throws for a string or an empty array; `write(fd, chunk, ...)` throws when
\* write is not defined.
Writev(st, arg) ==
  IF ~arg.array \/ arg.items = <<>>
    THEN [st EXCEPT !.pc = "crashed", !.chunks = arg, !.threw = "TypeError"]
  ELSE LET rest == SubSeq(arg.items, 1, Len(arg.items) - 1)
       IN IF WriteIsImported(st.variant)
            THEN [st EXCEPT !.pc = "writing", !.chunks = AnArray(rest),
                            !.fd = arg.items[Len(arg.items)]]
            ELSE [st EXCEPT !.pc = "crashed", !.chunks = AnArray(rest),
                            !.threw = "ReferenceError"]

\* The stream flushes its buffered chunks: `_writev(chunks, cb)`.
WritevCall(v, list) ==
  /\ stdio.pc = "idle"
  /\ stdio' = Writev([stdio EXCEPT !.variant = v, !.given = list],
                     AnArray(list))
  /\ UNCHANGED <<facade, text, booted, nested, resolved, loaded, scope,
                 reader, bcast, entry, fetch>>

StreamFlushes == \E v \in Variants, list \in ChunkLists : WritevCall(v, list)

\* The callback of write: `if (err) cb(err) else if (chunks.length === 0) cb()
\* else this._writev(..., cb)`
WriteCallback(err) ==
  /\ stdio.pc = "writing"
  /\ stdio' =
       IF err # "none"
         THEN [stdio EXCEPT !.pc = "done", !.cb = Append(@, err)]
       ELSE LET st == [stdio EXCEPT !.written = Append(@, stdio.fd)]
            IN IF stdio.chunks.items = <<>>
                 THEN [st EXCEPT !.pc = "done", !.cb = Append(@, "none")]
                 ELSE Writev(st, Recursed(stdio.variant, stdio.chunks.items))
  /\ UNCHANGED <<facade, text, booted, nested, resolved, loaded, scope,
                 reader, bcast, entry, fetch>>

WriteCompletes == \E err \in {"none", "EPIPE"} : WriteCallback(err)

\* ------------------------------------------------------- fallback fetch
MaxBody == 3      \* chunks of a response

BodyChunks == {<<"a", "b">>, <<"c">>, <<"d">>}

\* `return new Promise((resolve, reject) => { get(url, res => ...) })`
Fetch ==
  /\ fetch.pc = "idle"
  /\ fetch' = [fetch EXCEPT !.pc = "requested", !.promise = "pending"]
  /\ UNCHANGED <<facade, text, booted, nested, resolved, loaded, scope,
                 reader, bcast, entry, stdio>>

\* Listeners of the request's 'error' event: get(url, cb) is given the
\* response callback only, and nothing is attached to what it returns.
RequestErrorListeners == {}

\* The request fails before a response exists (refused, reset, no such
\* host): the request emits 'error'; with no listener the event is thrown.
RequestError ==
  /\ fetch.pc = "requested"
  /\ fetch' = [fetch EXCEPT
                 !.pc = "failed",
                 !.promise = IF "reject" \in RequestErrorListeners
                               THEN "rejected" ELSE @,
                 !.uncaught = RequestErrorListeners = {}]
  /\ UNCHANGED <<facade, text, booted, nested, resolved, loaded, scope,
                 reader, bcast, entry, stdio>>

\* The response callback: `let out = ''` and the three listeners
ResponseBegins ==
  /\ fetch.pc = "requested"
  /\ fetch' = [fetch EXCEPT !.pc = "responding", !.out = <<>>]
  /\ UNCHANGED <<facade, text, booted, nested, resolved, loaded, scope,
                 reader, bcast, entry, stdio>>

\* `res.on('data', chunk => out += chunk)`: the chunk's text is appended
OnData(chunk) ==
  /\ fetch.pc = "responding"
  /\ Len(fetch.sent) < MaxBody
  /\ fetch' = [fetch EXCEPT !.out = @ \o chunk, !.sent = Append(@, chunk)]
  /\ UNCHANGED <<facade, text, booted, nested, resolved, loaded, scope,
                 reader, bcast, entry, stdio>>

ResponseData == \E chunk \in BodyChunks : OnData(chunk)

\* `res.on('end', () => resolve({ text: () => out }))`
OnEnd ==
  /\ fetch.pc = "responding"
  /\ fetch' = [fetch EXCEPT !.pc = "ended", !.promise = "resolved",
                            !.value = fetch.out]
  /\ UNCHANGED <<facade, text, booted, nested, resolved, loaded, scope,
                 reader, bcast, entry, stdio>>

\* `res.on('error', reject)`
OnResponseError ==
  /\ fetch.pc = "responding"
  /\ fetch' = [fetch EXCEPT !.pc = "failed", !.promise = "rejected",
                            !.value = <<"error">>]
  /\ UNCHANGED <<facade, text, booted, nested, resolved, loaded, scope,
                 reader, bcast, entry, stdio>>

\* ------------------------------------------------------- specification
\* What the orchestrator's code does with the handle.
ClientListens == \E fn \in Fns : AddEventListener(focus, fn)

ClientUnlistens == \E fn \in Fns : RemoveEventListener(focus, fn)

ClientSetsSlot == \E v \in SlotValues : SetSlot(focus, v)

ClientConstructs == \E k \in Kinds, ty \in Types : Constructor(k, ty)

ClientPosts == \E v \in Vals : PostMessage(v)

ModulePosts == \E v \in Vals : WorkerPostMessage(v)

ModuleThrows == \E e \in Errs : WorkerThrows(e)

\* A client that uses the whole listener surface of the handle (listeners and
\* the onmessage / onerror slot of one event type) and a module that posts,
\* fails or ends.
NextListeners ==
  \/ ClientConstructs
  \/ LoadModuleResume
  \/ ClientListens
  \/ ClientUnlistens
  \/ ClientSetsSlot
  \/ ModulePosts
  \/ ModuleLoaded
  \/ ModuleThrows
  \/ WorkerClose
  \/ OnMessage
  \/ OnError
  \/ OnExit

\* A client that listens, posts and terminates, and a module that registers
\* its handler, echoes, posts, fails or ends.
NextMessaging ==
  \/ ClientConstructs
  \/ LoadModuleResume
  \/ ClientListens
  \/ ClientPosts
  \/ Terminate
  \/ ModulePosts
  \/ WorkerAddEventListener
  \/ ModuleLoaded
  \/ WorkerOnMessage
  \/ ModuleThrows
  \/ WorkerClose
  \/ OnMessage
  \/ OnError
  \/ OnExit

SpecListeners == Init /\ [][NextListeners]_vars

SpecMessaging == Init /\ [][NextMessaging]_vars

\* The event loops of both sides run a queued message's handler: a message in
\* a started port's queue is eventually dispatched.
FairMessaging ==
  SpecMessaging /\ WF_vars(OnMessage) /\ WF_vars(WorkerOnMessage)

\* The same source text given as a blob: URL and as a data: URL
InitSources ==
  /\ FacadeInit /\ focus = "message"
  /\ text \in Texts
  /\ booted = [k \in {"blob", "data"} |-> NotBooted]
  /\ NestedIdle /\ HooksIdle /\ ScopeIdle /\ ReaderIdle /\ BroadcastIdle
  /\ EntryIdle /\ StdioIdle /\ FetchIdle

NextSources == BootBlob \/ BootData

SpecSources == InitSources /\ [][NextSources]_vars

\* An orchestrator that constructs the outer worker and listens, an outer
\* module that constructs a nested worker and forwards what it posts.
NextNested ==
  \/ ClientConstructs
  \/ LoadModuleResume
  \/ ClientListens
  \/ ModuleConstructsNested
  \/ NestedLoadResume
  \/ NestedPosts
  \/ NestedOnMessage
  \/ OnMessage

InitNested == FacadeInit /\ focus = "message" /\ ExtIdle

SpecNested == InitNested /\ [][NextNested]_vars

FairNested ==
  SpecNested /\ WF_vars(OnMessage) /\ WF_vars(NestedOnMessage)

\* The host's module pipeline calling the hooks of both variants
NextHooks == HostResolves \/ HostLoads \/ HostLoadsResolved

InitHooks == FacadeInit /\ impl = "loader" /\ focus = "message" /\ ExtIdle

SpecHooks == InitHooks /\ [][NextHooks]_vars

\* A module that uses the message surface of its global scope
NextScope ==
  \/ ModuleListens
  \/ ModuleUnlistens
  \/ ModuleDispatches
  \/ ModuleSetsOnmessage
  \/ ScopeInbound

InitScope == FacadeInit /\ impl = "loader" /\ focus = "message" /\ ExtIdle

SpecScope == InitScope /\ [][NextScope]_vars

\* The orchestrator reading blobs with the blocking reader, and the
\* dedicated responder context
NextReader ==
  \/ ReaderRequests
  \/ ReaderWait
  \/ ResponderBoot
  \/ ResponderReceive
  \/ ResponderPost
  \/ ResponderNotify
  \/ ReaderReturn

InitReader == FacadeInit /\ impl = "loader" /\ focus = "message" /\ ExtIdle

SpecReader == InitReader /\ [][NextReader]_vars

\* Load calls for blob: URLs in a context, and the responders
NextBroadcast ==
  \/ HookLoadsBlob
  \/ ResponderListens
  \/ ResponderAnswers
  \/ AskerOnMessage
  \/ KeepAliveLapses
  \/ AskerExits

InitBroadcast ==
  /\ FacadeInit /\ impl = "loader" /\ focus = "message"
  /\ SourcesIdle /\ NestedIdle /\ HooksIdle /\ ScopeIdle /\ ReaderIdle
  /\ EntryIdle /\ StdioIdle /\ FetchIdle
  /\ \E v \in Variants, reg \in [Responders -> SUBSET Tokens] :
       bcast = [NoBroadcast EXCEPT !.variant = v, !.registry = reg]

SpecBroadcast == InitBroadcast /\ [][NextBroadcast]_vars

\* The channel is fair: a delivered message is handled, a read completes.
FairBroadcast ==
  /\ SpecBroadcast
  /\ WF_vars(ResponderListens)
  /\ WF_vars(ResponderAnswers)
  /\ WF_vars(AskerOnMessage)

\* A client that assigns handlers, posts and terminates, and a module that
\* posts, fails or ends: every operation that could touch the exited flag.
NextLifecycle ==
  \/ ClientConstructs
  \/ LoadModuleResume
  \/ ClientSetsSlot
  \/ ClientPosts
  \/ Terminate
  \/ ModulePosts
  \/ ModuleThrows
  \/ WorkerClose
  \/ OnMessage
  \/ OnError
  \/ OnExit

SpecLifecycle == Init /\ [][NextLifecycle]_vars

\* The host evaluating the entry script of a spawned context
NextEntry == HostStartsEntry \/ EntryStep \/ EntryThrows

InitEntry == FacadeInit /\ focus = "message" /\ ExtIdle

SpecEntry == InitEntry /\ [][NextEntry]_vars

\* A stream flushing its chunks through the installed _writev
NextStdio == StreamFlushes \/ WriteCompletes

InitStdio == FacadeInit /\ impl = "loader" /\ focus = "message" /\ ExtIdle

SpecStdio == InitStdio /\ [][NextStdio]_vars

\* One call of the fallback fetch, and the transport
NextFetch ==
  \/ Fetch
  \/ RequestError
  \/ ResponseBegins
  \/ ResponseData
  \/ OnEnd
  \/ OnResponseError

InitFetch == FacadeInit /\ impl = "loader" /\ focus = "message" /\ ExtIdle

SpecFetch == InitFetch /\ [][NextFetch]_vars

\* Every operation of every component
Next ==
  NextListeners \/ NextMessaging \/ NextSources \/ NextNested \/ NextHooks
    \/ NextScope \/ NextReader \/ NextBroadcast \/ NextEntry \/ NextStdio
    \/ NextFetch \/ NextLifecycle

Spec == Init /\ [][Next]_vars

\* ------------------------------------------------------- properties
InFlight(q, i) == \E k \in 1..Len(q) : q[k].id = i

Increasing(q) == \A i, j \in 1..Len(q) : i < j => q[i] < q[j]

Count(q, x) == Cardinality({i \in 1..Len(q) : q[i] = x})

\* C1: a constructor call whose options.type is absent or is not "module"
\* throws, and on that path no native context is spawned, no native handler or
\* port listener is attached, and the handle has no listener.
C1_NonModuleTypeThrows ==
  /\ phase = "ready" => ctorType = "module"
  /\ (phase # "idle" /\ ctorType # "module") =>
       /\ phase = "threw"
       /\ spawned = 0 /\ ~hasWorker /\ ~loadPending /\ wphase = "none"
       /\ wired = 0
       /\ listeners = [t \in EvTypes |-> <<>>]

C1_Witness == phase = "threw" /\ ctorType = "absent"

\* C2: every message event dispatched at the handle carries the data of the
\* message the module sent, and every message the module has sent while a
\* message listener is registered on the handle (the native channel is
\* forwarded) is eventually dispatched at the handle.
C2_DispatchedWasSent ==
  (last.kind = "message" /\ last.events > 0) =>
     /\ last.id \in 1..Len(hist.sentW)
     /\ last.data = hist.sentW[last.id]

C2_ModuleMessagesDelivered ==
  /\ []C2_DispatchedWasSent
  /\ \A i \in 1..MaxMsgs :
       (InFlight(w2h, i) /\ wired > 0) ~> (i \in Range(hist.seenH))

C2_Witness ==
  /\ last.kind = "message" /\ last.events > 0 /\ last.calls # <<>>
  /\ last.data = hist.sentW[last.id]
  /\ hist.userReg # {}

\* C3: forwarding from the native channel is armed once per handle, so one
\* native message produces exactly one dispatched message event and every
\* registered listener is invoked exactly once for it.
C3_OneEventPerMessage ==
  (impl = "loader" /\ last.kind = "message" /\ last.events > 0) =>
     /\ last.events = 1
     /\ \A fn \in Fns : Count(last.calls, fn) <= 1

\* C4: on either direction of the paired channel the receiving side observes
\* the messages in the order in which they were sent.
C4_OrderPreserved ==
  /\ Increasing(hist.seenH)
  /\ Increasing(hist.seenW)
  /\ Range(hist.seenH) \subseteq 1..Len(hist.sentW)
  /\ Range(hist.seenW) \subseteq 1..Len(hist.sentH)

C4_Witness == Len(hist.seenW) >= 2 /\ Len(hist.seenH) >= 2

\* The callbacks the client has registered for the focused type: the
\* listeners it added and did not remove, and the function in the slot.
Registered == hist.userReg \cup ({slot[focus]} \cap Fns)

\* C5: a fatal failure of the context yields exactly one error event at the
\* handle, carrying the failure unmodified; every listener added with
\* addEventListener('error') and the onerror handler are each invoked exactly
\* once, and nothing is thrown.
C5_ErrorEventOnce ==
  /\ hist.errEvents + Len(errq) = Len(hist.thrown)
  /\ (impl = "loader" /\ last.kind = "error") =>
       /\ last.events = 1
       /\ last.data = hist.thrown[hist.errEvents]
       /\ ~last.threw
       /\ focus = "error" =>
            \A fn \in Fns :
              Count(last.calls, fn) = IF fn \in Registered THEN 1 ELSE 0

\* The callbacks in the listener set that only a slot assignment put there.
SlotRegistered == Range(listeners[focus]) \ hist.userReg

\* C6 (loader handle): the getter returns the most recently assigned value if
\* it was a function and null otherwise; at most one function registered
\* through the slot is in the listener set, and it is the latest one: a
\* function the slot held before is not left registered by the slot and is
\* invoked by no later event unless the client added it itself.
C6_SlotState ==
  impl = "loader" =>
    /\ slot[focus] \in Fns \cup {Null}
    /\ SlotRegistered \subseteq {slot[focus]}
    /\ Cardinality(SlotRegistered) <= 1
    /\ last.kind \in EvTypes =>
         \A fn \in hist.replaced \ hist.userReg : Count(last.calls, fn) = 0

C6_SlotAssignment ==
  \A v \in SlotValues :
    (impl = "loader" /\ SetSlot(focus, v)) =>
       /\ slot'[focus] = IF v \in Fns THEN v ELSE Null
       /\ v \in Fns => v \in Range(listeners'[focus])

C7_NoSendAfterExit == ~(exited /\ last.kind = "post" /\ last.events > 0)

\* C8: when the constructor has returned, the handle owns exactly one native
\* context, whatever the kind of source, so a terminate() or postMessage()
\* call made right away does not fail for want of it.
C8_OwnsContextOnReturn ==
  phase = "ready" =>
    /\ hasWorker /\ spawned = 1
    /\ ~(last.kind \in {"terminate", "post"} /\ last.threw)

\* C9: a terminate() call on a handle whose termination has been requested
\* changes nothing and does not fail, and a terminate() call returns without
\* delivering or discarding anything in flight.
C9_TerminateStep ==
  Terminate =>
    /\ UNCHANGED <<w2h, h2w, errq, exited, wphase>>
    /\ terminated =>
         /\ ~last'.threw
         /\ UNCHANGED <<impl, focus, phase, ctorType, hasWorker, loadPending,
                        spawned, listeners, slot, wired, w2h, h2w, errq,
                        wphase, wListening, portStarted, exited, terminated,
                        hist>>
    /\ TerminateEffect(hasWorker', terminated')[1] = terminated'

C9_TerminateIdempotent == [][C9_TerminateStep]_vars

C9_Witness ==
  /\ last.kind = "terminate" /\ last.data = <<TRUE>> /\ ~last.threw
  /\ terminated /\ w2h # <<>> /\ ~exited

\* C10 as stated: a message posted before the module had registered its
\* handler is never dispatched in the context to no handler.
C10_EarlyMessageNeverLost == hist.early \cap hist.lostW = {}

\* C10 amended: such a message is lost only by the channel implementation and
\* only when the module's import completed before the module had registered a
\* handler; otherwise it stays queued until the handler is registered, is then
\* delivered to it, and the echo is dispatched at the handle (while the
\* context runs and the handle forwards its messages).
C10_LossOnlyWhenLoadedBare ==
  hist.lostW # {} => (impl = "channel" /\ hist.loadedBare)

C10_EarlyMessageEchoed ==
  /\ []C10_LossOnlyWhenLoadedBare
  /\ \A i \in 1..MaxMsgs :
       (i \in hist.early /\ InFlight(h2w, i) /\ wListening /\ portStarted
          /\ wired > 0)
         ~> (i \in hist.echoSeen \/ ~WorkerAlive)

C10_Witness ==
  /\ hist.early \cap hist.echoSeen # {}
  /\ last.kind = "message" /\ last.calls # <<>> /\ last.data[1] = "echo"

\* C11: a worker constructed from a blob: URL and a worker constructed from a
\* data: URL carrying the same source text evaluate the same module, so that
\* their handles see the same message and error events.
C11_BlobDataEquivalent ==
  (booted["blob"] # NotBooted /\ booted["data"] # NotBooted) =>
     booted["blob"] = booted["data"]

\* C12: a value the nested worker posts is dispatched at the nested handle
\* inside the outer worker, and the message the outer worker forwards with
\* postMessage(evt.data) is dispatched at the outer handle with that value:
\* every message event at the outer handle carries the value the nested
\* worker posted, and once the orchestrator listens every value the nested
\* worker posts is eventually dispatched at the outer handle.
C12_ForwardedIsPosted ==
  /\ Increasing(nested.seen)
  /\ (last.kind = "message" /\ last.events > 0) =>
       /\ last.id \in 1..Len(nested.sent)
       /\ last.id \in Range(nested.seen)
       /\ last.data = <<"msg", nested.sent[last.id]>>

C12_NestedMessageReachesOuter ==
  /\ []C12_ForwardedIsPosted
  /\ \A k \in 1..MaxMsgs :
       (InFlight(nested.inbox, k) /\ hist.userReg # {})
         ~> (k \in Range(nested.seen) /\ k \in Range(hist.seenH))

C12_Witness ==
  /\ last.kind = "message" /\ last.events > 0 /\ last.calls # <<>>
  /\ Len(nested.sent) >= 2
  /\ last.data = <<"msg", nested.sent[last.id]>>

\* C13: resolve applies its rules in priority order, in both variants: an
\* https specifier is returned as it is by short-circuit; otherwise, under an
\* https parent, the specifier resolved against the parent is returned by
\* short-circuit, a blob: specifier included; otherwise a blob: specifier is
\* returned as it is by short-circuit; otherwise nextResolve is called once
\* with the same specifier and context.  nextResolve is not called on a
\* short-circuit path.
C13_Expected(sp, pa) ==
  IF sp[1] = "https:"
    THEN [shortCircuit |-> TRUE, url |-> sp, next |-> <<>>]
  ELSE IF pa # <<>> /\ pa[1] = "https:"
    THEN [shortCircuit |-> TRUE,
          url |-> IF sp = RelativePath THEN <<"https:", "//", "h/", "b.js">>
                                       ELSE sp,
          next |-> <<>>]
  ELSE IF sp[1] = "blob:"
    THEN [shortCircuit |-> TRUE, url |-> sp, next |-> <<>>]
  ELSE [shortCircuit |-> FALSE, url |-> <<>>, next |-> << <<sp, pa>> >>]

C13_ResolvePriority ==
  resolved.called =>
    \A v \in Variants :
      /\ resolved.out[v] = C13_Expected(resolved.specifier, resolved.parentURL)
      /\ resolved.out[v].shortCircuit <=> resolved.out[v].next = <<>>
      /\ Len(resolved.out[v].next) <= 1

C13_Witness ==
  /\ resolved.called
  /\ resolved.specifier = BlobUrl /\ resolved.parentURL = RemoteUrl
  /\ resolved.out["v16"].shortCircuit /\ resolved.out["v18"].shortCircuit

\* C14: load classifies every URL, in both variants: an https:// URL is
\* fetched and returned as module source by short-circuit; a blob: URL, or the
\* sentinel-wrapped form of one, is asked for on the broadcast channel by its
\* blob: token and returned as module source by short-circuit; any other URL
\* is passed to nextLoad once, unchanged.  A URL of scheme https or blob that
\* resolve has returned by short-circuit is not passed to nextLoad.
C14_LoadClassifies ==
  loaded.called =>
    \A v \in Variants :
      LET u == loaded.url
          r == loaded.out[v]
          remote == Len(u) >= 2 /\ u[1] = "https:" /\ u[2] = "//"
          blob == u[1] = "blob:" \/ u = WrappedBlob
      IN /\ remote =>
              /\ r.branch = "fetch" /\ r.request = u
              /\ r.shortCircuit /\ r.format = "module" /\ r.next = <<>>
         /\ blob =>
              /\ r.branch = "broadcast" /\ r.request = BlobUrl
              /\ r.shortCircuit /\ r.format = "module" /\ r.next = <<>>
         /\ (~remote /\ ~blob) => (r.branch = "next" /\ r.next = <<u>>)
         /\ (loaded.fromResolve /\ (remote \/ blob)) => r.branch # "next"

\* C15: for every specifier and context given to resolve and every URL given
\* to load, the v16 variant and the v18 variant take the same branch and
\* return the same result.
C15_VariantsAgree ==
  /\ resolved.called => resolved.out["v16"] = resolved.out["v18"]
  /\ loaded.called => loaded.out["v16"] = loaded.out["v18"]

\* C16: in the context the scope's message operations act on the paired
\* channel: the 'message' listeners added through the scope are on parentPort
\* and not on the scope's own event target, and a message event given to the
\* scope's dispatchEvent is delivered to exactly those listeners.
C16_DispatchReachesPortListeners ==
  /\ scope.target["message"] = <<>>
  /\ scope.userReg \subseteq Range(scope.port)
  /\ (scope.out.kind = "dispatchEvent" /\ scope.out.type = "message") =>
       scope.out.calls = scope.port

\* The callbacks on the port that only an onmessage assignment put there
ScopeSlotRegistered == Range(scope.port) \ scope.userReg

\* C17: the scope's onmessage getter returns the most recently assigned value
\* if it was a function and null otherwise; at most one listener registered
\* through the slot is on the paired channel and it is the latest function
\* assigned; after a non-function is assigned the slot is null and an inbound
\* message invokes no function the slot held before (unless the module added
\* it itself with addEventListener).
C17_ScopeSlotState ==
  /\ scope.slot \in Fns \cup {Null}
  /\ ScopeSlotRegistered \subseteq {scope.slot}
  /\ Cardinality(ScopeSlotRegistered) <= 1
  /\ scope.out.kind = "inbound" =>
       \A fn \in scope.replaced \ scope.userReg :
         Count(scope.out.calls, fn) = 0
  /\ (scope.out.kind = "inbound" /\ scope.slot = Null) =>
       Range(scope.out.calls) \subseteq scope.userReg

C17_ScopeSlotAssignment ==
  \A v \in SlotValues :
    ScopeSetOnmessage(v) =>
       /\ scope'.slot = IF v \in Fns THEN v ELSE Null
       /\ v \in Fns => v \in Range(scope'.port)
       /\ (v \notin Fns /\ scope.slot \notin scope.userReg) =>
            ~(scope.slot \in Range(scope'.port))

C17_ScopeSingleActiveHandler ==
  []C17_ScopeSlotState /\ [][C17_ScopeSlotAssignment]_vars

C17_Witness ==
  /\ scope.slot = "g" /\ "f" \in scope.replaced /\ scope.userReg = {}
  /\ scope.out.kind = "inbound" /\ scope.out.calls = <<"g">>

\* C18: the blocking reader always returns the text of the blob it was called
\* for: a requester that is blocked on the shared cell has its request still
\* being served, so that a notification will wake it (no wakeup is lost), a
\* woken requester finds the result in its port's queue, and every call
\* returns the text of its blob.
C18_ReaderAlwaysWoken ==
  /\ reader.pc = "waiting" =>
       (reader.request # <<>> \/ reader.rpc \in {"reading", "posted"})
  /\ reader.pc = "woken" => reader.response # <<>>
  /\ ~reader.threw
  /\ \A i \in 1..Len(reader.results) :
       reader.results[i] \in {BlobText(tok) : tok \in BlobTokens}

\* C19: a load for token T is settled only by a response whose token is T and
\* with the content that response carries; responses for other tokens do not
\* settle it, and once settled its result is changed by no later response.
C19_SettledByOwnToken ==
  \A i \in 1..Len(bcast.loads) :
    LET l == bcast.loads[i]
    IN /\ l.pc = "done" => l.source = SourceOf(l.token)
       /\ l.pc = "waiting" => l.source = <<>>

C19_ResultKept ==
  \A i \in 1..Len(bcast.loads) :
    bcast.loads[i].pc = "done" =>
      /\ bcast'.loads[i].pc = "done"
      /\ bcast'.loads[i].source = bcast.loads[i].source

C19_OnlyMatchingResponse ==
  []C19_SettledByOwnToken /\ [][C19_ResultKept]_vars

C19_Witness ==
  \E i \in 1..Len(bcast.loads) :
    /\ bcast.loads[i].pc = "done"
    /\ bcast.loads[i].ignored > 0
    /\ bcast.loads[i].late > 0

\* A response for the token is in flight or being prepared somewhere.
Answering(tok) ==
  \/ \E r \in Responders : bcast.reading[r][tok] > 0
  \/ \E x \in Instances : \E k \in 1..Len(bcast.inbox[x]) :
       bcast.inbox[x][k].kind = "response" /\ bcast.inbox[x][k].url = tok

\* C20: for a token that no responder's registry holds, no response is ever
\* broadcast and the load is never settled; for a token that some responder's
\* registry holds, under a fair channel the load is eventually settled.
C20_MissIsSilent ==
  \A tok \in Tokens :
    (\A r \in Responders : tok \notin bcast.registry[r]) =>
       /\ ~Answering(tok)
       /\ \A i \in 1..Len(bcast.loads) :
            bcast.loads[i].token = tok => bcast.loads[i].pc = "waiting"

C20_HitCompletes ==
  /\ []C20_MissIsSilent
  /\ \A i \in 1..MaxLoads :
       (Len(bcast.loads) >= i
          /\ \E r \in Responders : bcast.loads[i].token \in bcast.registry[r])
         ~> (Len(bcast.loads) >= i /\ bcast.loads[i].pc = "done")

\* Position of the first occurrence of x in q, 0 when absent
First(q, x) ==
  IF x \in Range(q) THEN CHOOSE k \in 1..Len(q) :
                           q[k] = x /\ \A j \in 1..(k - 1) : q[j] # x
                    ELSE 0

IsPrefix(p, q) == Len(p) <= Len(q) /\ SubSeq(q, 1, Len(p)) = p

\* C22: a _writev call with k >= 1 chunks writes the chunks in their order,
\* each once, and invokes the callback once: with no error when the last
\* chunk is written, with the error of the first write that fails, after
\* which nothing more is written; no exception escapes.
C22_WritevInOrder ==
  /\ IsPrefix(stdio.written, stdio.given)
  /\ stdio.pc = "writing" => stdio.fd = stdio.given[Len(stdio.written) + 1]
  /\ stdio.threw = "none" /\ stdio.pc # "crashed"
  /\ Len(stdio.cb) <= 1
  /\ stdio.pc = "done" <=> Len(stdio.cb) = 1
  /\ (stdio.pc = "done" /\ stdio.cb[1] = "none") => stdio.written = stdio.given

\* The text of the chunks, one after the other
RECURSIVE Concat(_)
Concat(q) == IF q = <<>> THEN <<>> ELSE Head(q) \o Concat(Tail(q))

\* C23: the promise of the fallback fetch is settled by every outcome of the
\* transfer: resolved when the response has ended, with the text of all the
\* chunks in their order; rejected when the transport fails, before a
\* response exists or on the response stream; no error is left uncaught.
C23_FetchAlwaysSettles ==
  /\ fetch.promise = "resolved" <=> fetch.pc = "ended"
  /\ fetch.promise = "resolved" => fetch.value = Concat(fetch.sent)
  /\ fetch.pc = "failed" => fetch.promise = "rejected"
  /\ ~fetch.uncaught

\* C24: the exited flag is unset from construction until the native exit
\* signal, which sets it for good; a postMessage or terminate() call, a
\* message or error event and a handler assignment leave it as it is (an
\* error event does not make the handle terminal), and the step that sets it
\* dispatches no event at the handle.
C24_FlagIsExit == exited <=> wphase = "exited"

C24_FlagStep ==
  /\ exited => exited'
  /\ (~exited /\ exited') =>
       /\ wphase # "exited" /\ wphase' = "exited"
       /\ last'.kind = "none" /\ last'.events = 0 /\ last'.calls = <<>>
       /\ UNCHANGED <<listeners, slot, w2h, h2w, errq, hist>>
  /\ (last' # last /\ last'.kind \in {"post", "terminate", "message", "error"})
       => exited' = exited
  /\ (slot' # slot \/ listeners' # listeners \/ terminated' # terminated)
       => exited' = exited

C24_ExitedFlagFrame == []C24_FlagIsExit /\ [][C24_FlagStep]_vars

C24_Witness ==
  /\ exited /\ hist.errEvents > 0 /\ Len(hist.sentH) > 0
  /\ slot[focus] \in Fns

\* The callbacks of the client's registrations, oldest first
InOrder == [k \in 1..Len(hist.order) |-> hist.order[k][2]]

\* C25: each message event dispatched at the handle invokes the registered
\* message listeners and the onmessage handler in the order of their
\* registration, the handler at the place of its latest assignment, and
\* does so for every message (for a client that never has one function
\* registered both ways).
C25_RegistrationOrder ==
  (focus = "message" /\ ~hist.mixed /\ slot["message"] # NonFn
     /\ last.kind = "message" /\ last.events > 0) =>
       last.calls = Repeat(InOrder, last.events)

\* C29: assigning or clearing the onmessage / onerror slot never removes a
\* listener the client registered with addEventListener: every callback the
\* client has added and not removed is in the listener set.
C29_SlotLeavesListeners == hist.userReg \subseteq Range(listeners[focus])

\* C30: a message is not kept at the handle: when it arrives the callbacks
\* registered at that moment are invoked and it leaves the channel; a
\* message that arrived when nothing was registered invokes no callback
\* later, and a callback registered later is invoked for later arrivals only.
C30_Arrival ==
  (last.kind = "message" /\ last.calls # <<>>) => last.id \notin hist.unheard

C30_ArrivalStep ==
  OnMessage =>
    /\ ~InFlight(w2h', Head(w2h).id)
    /\ Range(last'.calls) \subseteq
         Range(listeners["message"]) \cup {slot["message"]}
    /\ (listeners["message"] = <<>> /\ slot["message"] \notin Fns) =>
         /\ last'.calls = <<>>
         /\ Head(w2h).id \in hist'.unheard

C30_NotBuffered == []C30_Arrival /\ [][C30_ArrivalStep]_vars

C30_Witness ==
  /\ focus = "message" /\ hist.unheard # {}
  /\ last.kind = "message" /\ last.calls # <<>>
  /\ last.id \notin hist.unheard

\* C26: the listener of a load is on the channel from the step that posts
\* the request, so a response carrying the load's token that is dispatched
\* in the asking context always settles the load: none is missed, in any
\* interleaving of the asker, the responders and the deliveries.
C26_ListeningWhileWaiting ==
  \A i \in 1..Len(bcast.loads) :
    bcast.loads[i].pc = "waiting" => bcast.loads[i].listening

C26_ResponseStep ==
  AskerOnMessage =>
    \A i \in 1..Len(bcast.loads) :
      LET m == Head(bcast.inbox["asker"])
      IN (m.kind = "response" /\ m.url = bcast.loads[i].token) =>
            /\ bcast'.loads[i].pc = "done"
            /\ bcast'.loads[i].source = m.source

C26_NoResponseMissed ==
  []C26_ListeningWhileWaiting /\ [][C26_ResponseStep]_vars

C26_Witness ==
  /\ Len(bcast.loads) = 2
  /\ bcast.loads[1].token = bcast.loads[2].token
  /\ bcast.loads[1].pc = "done" /\ bcast.loads[2].pc = "done"
  /\ \A r \in Responders : bcast.loads[1].token \in bcast.registry[r]

\* Sum of a responder's pending reads
Reading(r) ==
  LET RECURSIVE Sum(_)
      Sum(S) == IF S = {} THEN 0
                ELSE LET t == CHOOSE x \in S : TRUE
                     IN bcast.reading[r][t] + Sum(S \ {t})
  IN Sum(Tokens)

Requests(q) == Cardinality({k \in 1..Len(q) : q[k].kind = "request"})

\* C27: a response never makes a responder post: for the requests posted so
\* far each responder has posted, is preparing or has yet to receive at most
\* one response per request, so the messages on the channel never exceed the
\* requests times one plus the number of responders.
C27_NoAmplification ==
  /\ \A r \in Responders :
       bcast.answers[r] + Reading(r) + Requests(bcast.inbox[r])
         <= Len(bcast.loads)
  /\ \A r \in Responders :
       \A tok \in Tokens :
         (\A i \in 1..Len(bcast.loads) : bcast.loads[i].token # tok) =>
            bcast.reading[r][tok] = 0

C27_Witness ==
  /\ Len(bcast.loads) = 1
  /\ \A r \in Responders : bcast.answers[r] = 1 /\ bcast.inbox[r] = <<>>
  /\ bcast.inbox["asker"] = <<>>

\* C28: however many workers are constructed from blob: URLs, the factory
\* of the blocking reader runs once: one reader context, one shared cell and
\* one port pair are created by the first call, and every later call gets
\* the reader function of the first.
C28_ReaderIsSingleton ==
  /\ reader.made <= 1
  /\ reader.made = 1 <=> reader.bound = "reader"
  /\ reader.made = 0 <=> reader.rpc = "none"
  /\ (reader.pc # "idle" \/ reader.results # <<>>) => reader.made = 1

C28_Witness ==
  /\ Len(reader.results) = MaxReads /\ reader.made = 1
  /\ reader.results[1] # reader.results[2]

====
